---- MODULE Spec2Model ----
(***************************************************************************)
(* A model of meta::topics::kmeans_model (src/src/topics/kmeans_model.cpp) *)
(* and of its caller run_kmeans (src/src/topics/tools/kmeans.cpp).         *)
(*                                                                         *)
(* Vectors are functions over the zero-based identifier ranges the code    *)
(* uses.  Weights are doubles in the code; the model draws them from the   *)
(* multiples of Unit, the least common multiple of 1..MaxDocs, so that     *)
(* every sum, square and division by a cluster size that the code performs *)
(* is exact both in double arithmetic and in the integers used here.       *)
(***************************************************************************)
EXTENDS Integers, Sequences, FiniteSets, TLC

\* Bounds of the model.
MaxDocs == 3
MaxTerms == 2
MaxTopics == 3
MaxIters == 2
MaxWeight == 2
MaxOutputTerms == 2

VARIABLES
    num_docs_,          \* kmeans_model::num_docs_
    num_terms_,         \* kmeans_model::num_terms_
    num_topics_,        \* kmeans_model::num_topics_
    documents_,         \* kmeans_model::documents_
    centroids_,         \* kmeans_model::centroids_
    topics_,            \* kmeans_model::topics_
    pc,                 \* position of the run_kmeans / run() call
    num_iters,          \* run() parameter
    init_method,        \* run() parameter
    num_output_terms,   \* run() parameter
    i,                  \* loop counter of run()
    d_id,               \* document counter of the assignment loop of run()
    update_count,       \* update_count of run()
    centroid_count,     \* loop counter of the kmeans++ branch
    weights,            \* weights of the kmeans++ branch
    printed,            \* what print_topics wrote to std::cout, per topic
    documents_file,     \* what save_documents wrote, one entry per line
    centroids_file,     \* what save_centroids wrote, one entry per line
    clusters_file,      \* what save_clusters wrote, one entry per line
    error               \* what() of the exception that left run(), if any

vars == <<num_docs_, num_terms_, num_topics_, documents_, centroids_, topics_,
          pc, num_iters, init_method, num_output_terms, i, d_id, update_count,
          centroid_count, weights, printed, documents_file, centroids_file,
          clusters_file, error>>

----------------------------------------------------------------------------
\* Weights the corpus can give a term of a document.

RECURSIVE Gcd(_, _)
Gcd(a, b) == IF b = 0 THEN a ELSE Gcd(b, a % b)

RECURSIVE LcmUpTo(_)
LcmUpTo(n) ==
    IF n <= 1 THEN 1
    ELSE LET l == LcmUpTo(n - 1) IN (l * n) \div Gcd(l, n)

Unit == LcmUpTo(MaxDocs)

Weights == {w * Unit : w \in 0..MaxWeight}

InitMethods == {"kmeans++", "randk", "random"}

NoError == "none"
InvalidMethod == "invalid initalization method"
EmptyCluster == "cluster cannot be empty"

----------------------------------------------------------------------------
\* Identifier ranges.

Docs == 0..(num_docs_ - 1)
Terms == 0..(num_terms_ - 1)
Topics == 0..(num_topics_ - 1)

ZeroFeature == [w_id \in Terms |-> 0]

----------------------------------------------------------------------------
\* compute_distance: the sum over the terms of the squared differences.

RECURSIVE SumSquares(_, _, _)
SumSquares(features, w_id, distance) ==
    IF w_id < num_terms_
    THEN LET diff == features[1][w_id] - features[2][w_id]
         IN  SumSquares(features, w_id + 1, distance + diff * diff)
    ELSE distance

compute_distance(features) == SumSquares(features, 0, 0)

\* std::min_element: the first position holding the smallest value.
RECURSIVE MinElementFrom(_, _, _, _)
MinElementFrom(distances, last, first, smallest) ==
    IF first = last THEN smallest
    ELSE MinElementFrom(distances, last, first + 1,
                        IF distances[first] < distances[smallest]
                        THEN first ELSE smallest)

\* A min_element that keeps the last position holding the smallest value.
RECURSIVE MinElementLastFrom(_, _, _, _)
MinElementLastFrom(distances, last, first, smallest) ==
    IF first = last THEN smallest
    ELSE MinElementLastFrom(distances, last, first + 1,
                            IF distances[first] <= distances[smallest]
                            THEN first ELSE smallest)

min_element_last(distances, last) == MinElementLastFrom(distances, last, 1, 0)

min_element(distances, last) == MinElementFrom(distances, last, 1, 0)

\* A search that prefers the highest index among the nearest centroids.
NearestAmongLast(cs, feature, cluster_limit) ==
    LET distances == [c_id \in 0..(cluster_limit - 1) |->
                          compute_distance(<<feature, cs[c_id]>>)]
        index == min_element_last(distances, cluster_limit)
    IN  <<index, distances[index]>>

\* find_nearest_cluster(feature, cluster_limit), on the centroids cs.
NearestAmong(cs, feature, cluster_limit) ==
    LET distances == [c_id \in 0..(cluster_limit - 1) |->
                          compute_distance(<<feature, cs[c_id]>>)]
        index == min_element(distances, cluster_limit)
    IN  <<index, distances[index]>>

find_nearest_cluster(feature, cluster_limit) ==
    NearestAmong(centroids_, feature, cluster_limit)

\* find_nearest_cluster(feature): searches all num_topics_ clusters.
find_nearest_cluster_all(feature) == find_nearest_cluster(feature, num_topics_)

----------------------------------------------------------------------------
\* compute_mean: throws on an empty list, else the element-wise mean.

RECURSIVE SumWeights(_, _, _)
SumWeights(docs, doc_ids, w_id) ==
    IF doc_ids = <<>> THEN 0
    ELSE docs[Head(doc_ids)][w_id] + SumWeights(docs, Tail(doc_ids), w_id)

\* A mean without the emptiness check: an empty cluster gets the zero vector.
compute_mean_unchecked(doc_ids) ==
    [threw |-> FALSE,
     mean |-> [w_id \in Terms |->
                 IF doc_ids = <<>> THEN 0
                 ELSE SumWeights(documents_, doc_ids, w_id) \div Len(doc_ids)]]

\* A mean that divides by the number of all documents.
compute_mean_over_all(doc_ids) ==
    IF doc_ids = <<>>
    THEN [threw |-> TRUE, mean |-> ZeroFeature]
    ELSE [threw |-> FALSE,
          mean |-> [w_id \in Terms |->
                      SumWeights(documents_, doc_ids, w_id) \div num_docs_]]

compute_mean(doc_ids) ==
    IF doc_ids = <<>>
    THEN [threw |-> TRUE, mean |-> ZeroFeature]
    ELSE [threw |-> FALSE,
          mean |-> [w_id \in Terms |->
                      SumWeights(documents_, doc_ids, w_id) \div Len(doc_ids)]]

\* The doc_ids that update_centroids collects for t_id out of the multimap:
\* the documents whose topic is t_id, in ascending document order.
DocSeq == [j \in 1..num_docs_ |-> j - 1]

cluster_doc_ids(t_id) == SelectSeq(DocSeq, LAMBDA d : topics_[d] = t_id)

----------------------------------------------------------------------------
Init ==
    /\ num_docs_ \in 1..MaxDocs
    /\ num_terms_ \in 1..MaxTerms
    /\ num_topics_ \in 1..MaxTopics
    /\ documents_ = [d \in Docs |-> ZeroFeature]
    /\ centroids_ = [t \in Topics |-> ZeroFeature]
    /\ topics_ = [d \in Docs |-> 0]
    /\ pc = "constructed"
    /\ num_iters = 0
    /\ init_method = ""
    /\ num_output_terms = 0
    /\ i = 0
    /\ d_id = 0
    /\ update_count = 0
    /\ centroid_count = 0
    /\ weights = [d \in Docs |-> 0]
    /\ printed = <<>>
    /\ documents_file = <<>>
    /\ centroids_file = <<>>
    /\ clusters_file = <<>>
    /\ error = NoError

\* run() is entered and init_documents() fills the document vectors.
RunInitDocuments ==
    /\ pc = "constructed"
    /\ \E n \in 0..MaxIters, m \in InitMethods, o \in 0..MaxOutputTerms :
          /\ num_iters' = n
          /\ init_method' = m
          /\ num_output_terms' = o
    /\ documents_' \in [Docs -> [Terms -> Weights]]
    /\ pc' = "init_centroids"
    /\ UNCHANGED <<num_docs_, num_terms_, num_topics_, centroids_, topics_,
                   i, d_id, update_count, centroid_count, weights, printed,
                   documents_file, centroids_file, clusters_file, error>>

----------------------------------------------------------------------------
\* init_centroids.

\* The indices std::discrete_distribution can return for the weights w: an
\* index of positive weight; with no positive weight the precondition
\* 0 < sum of the weights is broken and any index may come out.
\* A draw that ignores the weights.
discrete_distribution_unweighted(w) == DOMAIN w

discrete_distribution(w) ==
    IF \E d \in DOMAIN w : w[d] > 0
    THEN {d \in DOMAIN w : w[d] > 0}
    ELSE DOMAIN w

\* The indices std::uniform_int_distribution(0, num_docs_ - 1) can return.
uniform_dist == 0..(num_docs_ - 1)

\* weights[d_id] of the kmeans++ loop for the slot centroid_count.
kmeanspp_weights ==
    [d \in Docs |-> find_nearest_cluster(documents_[d], centroid_count)[2]]

\* A selection that falls back to randk for a name it does not know.
init_branch_default(m) == IF m = "kmeans++" THEN "kmeans++" ELSE "randk"

\* The branch of init_centroids that the method name selects.
init_branch(m) ==
    IF m = "kmeans++" THEN "kmeans++"
    ELSE IF m = "randk" THEN "randk"
    ELSE "throw"

InitCentroidsRandk ==
    /\ pc = "init_centroids"
    /\ init_branch(init_method) = "randk"
    /\ \E pick \in [Topics -> uniform_dist] :
          centroids_' = [t_id \in Topics |-> documents_[pick[t_id]]]
    /\ pc' = "loop"
    /\ UNCHANGED <<num_docs_, num_terms_, num_topics_, documents_, topics_,
                   num_iters, init_method, num_output_terms, i, d_id,
                   update_count, centroid_count, weights, printed,
                   clusters_file, documents_file, centroids_file, error>>

InitCentroidsKmeansppFirst ==
    /\ pc = "init_centroids"
    /\ init_branch(init_method) = "kmeans++"
    /\ \E d \in uniform_dist :
          centroids_' = [centroids_ EXCEPT ![0] = documents_[d]]
    /\ centroid_count' = 1
    /\ pc' = IF 1 < num_topics_ THEN "kmeanspp" ELSE "loop"
    /\ UNCHANGED <<num_docs_, num_terms_, num_topics_, documents_, topics_,
                   num_iters, init_method, num_output_terms, i, d_id,
                   update_count, weights, printed, clusters_file,
                   documents_file, centroids_file, error>>

InitCentroidsKmeansppNext ==
    /\ pc = "kmeanspp"
    /\ weights' = kmeanspp_weights
    /\ \E d \in discrete_distribution(kmeanspp_weights) :
          centroids_' = [centroids_ EXCEPT ![centroid_count] = documents_[d]]
    /\ centroid_count' = centroid_count + 1
    /\ pc' = IF centroid_count + 1 < num_topics_ THEN "kmeanspp" ELSE "loop"
    /\ UNCHANGED <<num_docs_, num_terms_, num_topics_, documents_, topics_,
                   num_iters, init_method, num_output_terms, i, d_id,
                   update_count, printed, clusters_file, documents_file,
                   centroids_file, error>>

InitCentroidsInvalid ==
    /\ pc = "init_centroids"
    /\ init_branch(init_method) = "throw"
    /\ pc' = "failed"
    /\ error' = InvalidMethod
    /\ UNCHANGED <<num_docs_, num_terms_, num_topics_, documents_, centroids_,
                   topics_, num_iters, init_method, num_output_terms, i, d_id,
                   update_count, centroid_count, weights, printed,
                   clusters_file, documents_file, centroids_file>>

----------------------------------------------------------------------------
\* The iteration loop of run().

\* for (i = 0; i < num_iters; ++i): the test, and the start of the body.
\* A loop test that lets one iteration too many through.
loop_continues_inclusive == i <= num_iters

loop_continues == i < num_iters

LoopTest ==
    /\ pc = "loop"
    /\ IF loop_continues
       THEN /\ update_count' = 0
            /\ d_id' = 0
            /\ pc' = "assign"
       ELSE /\ pc' = "after_loop"
            /\ UNCHANGED <<update_count, d_id>>
    /\ UNCHANGED <<num_docs_, num_terms_, num_topics_, documents_, centroids_,
                   topics_, num_iters, init_method, num_output_terms, i,
                   centroid_count, weights, printed, clusters_file,
                   documents_file, centroids_file, error>>

\* A return value that never reports a change.
assign_document_changed_never(d) == FALSE

\* assign_document(d): its return value and the topics_ it leaves.
assign_document_changed(d) ==
    find_nearest_cluster_all(documents_[d])[1] # topics_[d]

\* An assignment that stores the one-based position of the nearest centroid.
assign_document_topics_one_based(d) ==
    LET pair == find_nearest_cluster_all(documents_[d])
    IN  IF pair[1] = topics_[d] THEN topics_
        ELSE [topics_ EXCEPT ![d] = pair[1] + 1]

assign_document_topics(d) ==
    LET pair == find_nearest_cluster_all(documents_[d])
    IN  IF pair[1] = topics_[d] THEN topics_
        ELSE [topics_ EXCEPT ![d] = pair[1]]

\* An assignment that moves the chosen centroid onto the document at once.
AssignDocumentOnline ==
    /\ pc = "assign"
    /\ topics_' = assign_document_topics(d_id)
    /\ centroids_' = [centroids_ EXCEPT ![topics_'[d_id]] = documents_[d_id]]
    /\ update_count' = IF assign_document_changed(d_id)
                       THEN update_count + 1 ELSE update_count
    /\ d_id' = d_id + 1
    /\ pc' = IF d_id + 1 < num_docs_ THEN "assign" ELSE "update"
    /\ UNCHANGED <<num_docs_, num_terms_, num_topics_, documents_,
                   num_iters, init_method, num_output_terms, i,
                   centroid_count, weights, printed, clusters_file,
                   documents_file, centroids_file, error>>

\* One turn of the loop over the documents: if (assign_document(d_id))
\* ++update_count.
AssignDocument ==
    /\ pc = "assign"
    /\ topics_' = assign_document_topics(d_id)
    /\ update_count' = IF assign_document_changed(d_id)
                       THEN update_count + 1 ELSE update_count
    /\ d_id' = d_id + 1
    /\ pc' = IF d_id + 1 < num_docs_ THEN "assign" ELSE "update"
    /\ UNCHANGED <<num_docs_, num_terms_, num_topics_, documents_, centroids_,
                   num_iters, init_method, num_output_terms, i,
                   centroid_count, weights, printed, clusters_file,
                   documents_file, centroids_file, error>>

\* update_centroids: the clusters are taken in ascending order; the first
\* empty one makes compute_mean throw, the centroids before it having been
\* overwritten already.
EmptyTopics == {t_id \in Topics : compute_mean(cluster_doc_ids(t_id)).threw}

update_centroids_throws == EmptyTopics # {}

update_centroids ==
    LET stop == IF EmptyTopics = {} THEN num_topics_
                ELSE CHOOSE t \in EmptyTopics : \A u \in EmptyTopics : t <= u
    IN  [t_id \in Topics |->
            IF t_id < stop THEN compute_mean(cluster_doc_ids(t_id)).mean
            ELSE centroids_[t_id]]

UpdateCentroids ==
    /\ pc = "update"
    /\ centroids_' = update_centroids
    /\ IF update_centroids_throws
       THEN /\ pc' = "failed"
            /\ error' = EmptyCluster
       ELSE /\ pc' = "check"
            /\ UNCHANGED error
    /\ UNCHANGED <<num_docs_, num_terms_, num_topics_, documents_, topics_,
                   num_iters, init_method, num_output_terms, i, d_id,
                   update_count, centroid_count, weights, printed,
                   clusters_file, documents_file, centroids_file>>

\* A loop body without the break.
loop_never_breaks == FALSE

\* if (update_count == 0) break;
loop_breaks == update_count = 0

\* The end of the loop body: break, or ++i and back to the loop test.
LoopCheck ==
    /\ pc = "check"
    /\ IF loop_breaks
       THEN /\ pc' = "after_loop"
            /\ UNCHANGED i
       ELSE /\ i' = i + 1
            /\ pc' = "loop"
    /\ UNCHANGED <<num_docs_, num_terms_, num_topics_, documents_, centroids_,
                   topics_, num_iters, init_method, num_output_terms, d_id,
                   update_count, centroid_count, weights, printed,
                   clusters_file, documents_file, centroids_file, error>>

----------------------------------------------------------------------------
\* print_topics.  The priority queue holds (weight, term) pairs; it is a
\* sequence here, its top being a greatest pair under std::pair's order.

PairLess(a, b) == a[1] < b[1] \/ (a[1] = b[1] /\ a[2] < b[2])

pq_top_index(pq) ==
    CHOOSE j \in 1..Len(pq) : \A l \in 1..Len(pq) : ~PairLess(pq[j], pq[l])

pq_top(pq) == pq[pq_top_index(pq)]

pq_pop(pq) ==
    LET j == pq_top_index(pq)
    IN  SubSeq(pq, 1, j - 1) \o SubSeq(pq, j + 1, Len(pq))

\* for (w_id = 0; w_id < num_terms_; ++w_id) pq.push(...)
RECURSIVE PushTerms(_, _, _)
PushTerms(pq, t_id, w_id) ==
    IF w_id < num_terms_
    THEN PushTerms(Append(pq, <<centroids_[t_id][w_id], w_id>>), t_id, w_id + 1)
    ELSE pq

\* for (i = 0; i < num_terms; ++i) { if (pq.empty()) break; print; pop }
RECURSIVE PopTerms(_, _, _, _)
PopTerms(pq, lines, n, num_terms) ==
    IF n < num_terms /\ pq # <<>>
    THEN LET pair == pq_top(pq)
         IN  PopTerms(pq_pop(pq), Append(lines, <<pair[2], pair[1]>>),
                      n + 1, num_terms)
    ELSE [pq |-> pq, lines |-> lines]

\* The loop over the topics; pq is declared before it.
RECURSIVE PrintFrom(_, _, _, _)
PrintFrom(t_id, pq, out, num_terms) ==
    IF t_id < num_topics_
    THEN LET popped == PopTerms(PushTerms(pq, t_id, 0), <<>>, 0, num_terms)
         IN  PrintFrom(t_id + 1, popped.pq, Append(out, popped.lines),
                       num_terms)
    ELSE out

print_topics(num_terms) == PrintFrom(0, <<>>, <<>>, num_terms)

\* if (num_output_terms > 0) print_topics(num_output_terms); and run() returns.
RunPrintTopics ==
    /\ pc = "after_loop"
    /\ printed' = IF num_output_terms > 0 THEN print_topics(num_output_terms)
                  ELSE printed
    /\ pc' = "returned"
    /\ UNCHANGED <<num_docs_, num_terms_, num_topics_, documents_, centroids_,
                   topics_, num_iters, init_method, num_output_terms, i, d_id,
                   update_count, centroid_count, weights, clusters_file,
                   documents_file, centroids_file, error>>

----------------------------------------------------------------------------
\* save, called by run_kmeans once run() has returned.

save_documents == [j \in 1..num_docs_ |->
                      [l \in 1..num_terms_ |-> documents_[j - 1][l - 1]]]

save_centroids == [j \in 1..num_topics_ |->
                      [l \in 1..num_terms_ |-> centroids_[j - 1][l - 1]]]

save_clusters == [j \in 1..num_docs_ |-> <<j - 1, topics_[j - 1]>>]

Save ==
    /\ pc = "returned"
    /\ documents_file' = save_documents
    /\ centroids_file' = save_centroids
    /\ clusters_file' = save_clusters
    /\ pc' = "saved"
    /\ UNCHANGED <<num_docs_, num_terms_, num_topics_, documents_, centroids_,
                   topics_, num_iters, init_method, num_output_terms, i, d_id,
                   update_count, centroid_count, weights, printed, error>>

----------------------------------------------------------------------------
Next ==
    \/ RunInitDocuments
    \/ InitCentroidsRandk
    \/ InitCentroidsKmeansppFirst
    \/ InitCentroidsKmeansppNext
    \/ InitCentroidsInvalid
    \/ LoopTest
    \/ AssignDocument
    \/ UpdateCentroids
    \/ LoopCheck
    \/ RunPrintTopics
    \/ Save


Spec == Init /\ [][Next]_vars

----------------------------------------------------------------------------
\* Positions of the call.

Iterating == {"assign", "update", "check"}
AfterLoop == {"after_loop", "returned", "saved"}
Ended == AfterLoop \cup {"failed"}

\* The documents assigned to the cluster t_id.
Members(t_id) == {d \in Docs : topics_[d] = t_id}

RECURSIVE SumOver(_, _)
SumOver(f, S) ==
    IF S = {} THEN 0
    ELSE LET x == CHOOSE y \in S : TRUE IN f[x] + SumOver(f, S \ {x})

----------------------------------------------------------------------------
\* C1: once an Assignment Step has reported zero changed documents, that
\* iteration's Update Step is the last step of the loop: the run leaves the
\* loop (or fails in that Update Step) and never assigns or updates again,
\* whatever is left of the iteration budget.
C1_ZeroChangesEndsLoop ==
    [][ /\ (pc = "update" /\ update_count = 0) => pc' \in {"check", "failed"}
        /\ (pc = "check" /\ update_count = 0) => pc' = "after_loop"
        /\ pc \in Ended => pc' \in Ended ]_vars

\* A run that converged with at least one whole iteration of budget left.
C1_Witness ==
    /\ pc = "saved"
    /\ update_count = 0
    /\ i + 1 < num_iters

----------------------------------------------------------------------------
\* The outcomes of a run that has left the loop.
Converged == num_iters > 0 /\ update_count = 0
IterationLimitReached == i = num_iters /\ (num_iters > 0 => update_count # 0)
Fatal == error \in {EmptyCluster, InvalidMethod}

\* An upper bound of the number of steps the call has left.
IterationCost == num_docs_ + 4
Measure ==
    CASE pc = "constructed" ->
            MaxIters * (MaxDocs + 4) + MaxTopics + 5
      [] pc = "init_centroids" ->
            num_iters * IterationCost + num_topics_ + 4
      [] pc = "kmeanspp" ->
            num_iters * IterationCost + (num_topics_ - centroid_count) + 3
      [] pc = "loop" -> (num_iters - i) * IterationCost + 3
      [] pc = "assign" -> (num_iters - i) * IterationCost + 2 - d_id
      [] pc = "update" -> (num_iters - i) * IterationCost + 1 - num_docs_
      [] pc = "check" -> (num_iters - i) * IterationCost - num_docs_
      [] pc = "after_loop" -> 2
      [] pc = "returned" -> 1
      [] OTHER -> 0

\* C2: run() executes at most num_iters Assignment Steps, every step brings
\* it closer to its end (so it cannot iterate forever), and it ends in
\* exactly one of Converged, IterationLimitReached or a fatal failure.
C2_BoundedAndEndsInOneOutcome ==
    [][ /\ Measure' < Measure
        /\ Measure' >= 0
        /\ i' <= num_iters'
        /\ pc' \in Iterating => i' < num_iters'
        /\ pc' \in AfterLoop =>
              /\ error' = NoError
              /\ Converged' # IterationLimitReached'
              /\ Converged' => i' < num_iters'
        /\ pc' = "failed" => Fatal' ]_vars

\* A run that used its whole budget of two or more iterations, the last of
\* them still changing assignments.
C2_Witness ==
    /\ pc = "saved"
    /\ num_iters >= 2
    /\ i = num_iters
    /\ update_count > 0

----------------------------------------------------------------------------
\* C3: the Assignment Table always has exactly one entry per document, each
\* a cluster identifier in [0, k), and save_clusters writes one line
\* "<doc_id> <cluster_id>" per document with that value.
C3_AssignmentTableTotalAndInRange ==
    /\ DOMAIN topics_ = Docs
    /\ \A d \in Docs : topics_[d] \in Topics
    /\ pc = "saved" =>
          /\ Len(clusters_file) = num_docs_
          /\ \A d \in Docs :
                /\ Cardinality({j \in 1..Len(clusters_file) :
                                   clusters_file[j][1] = d}) = 1
                /\ \A j \in 1..Len(clusters_file) :
                      clusters_file[j][1] = d =>
                          /\ clusters_file[j][2] = topics_[d]
                          /\ clusters_file[j][2] \in Topics

\* A saved run in which every cluster of k >= 2 has a document.
C3_Witness ==
    /\ pc = "saved"
    /\ num_topics_ >= 2
    /\ \A t \in Topics : Members(t) # {}

----------------------------------------------------------------------------
\* C4: an Update Step that finds a cluster without documents fails with the
\* empty-cluster error, leaves the centroid of every empty cluster as it
\* was, and ends the run: nothing is printed or saved and no step follows.
C4_EmptyClusterIsFatal ==
    [][ /\ (pc = "update" /\ \E t \in Topics : Members(t) = {}) =>
              /\ pc' = "failed"
              /\ error' = EmptyCluster
              /\ \A t \in Topics :
                    Members(t) = {} => centroids_'[t] = centroids_[t]
        /\ pc # "failed"
        /\ pc' = "failed" =>
              /\ printed' = <<>>
              /\ clusters_file' = <<>>
              /\ centroids_file' = <<>>
              /\ documents_file' = <<>> ]_vars

\* A run with k <= num_docs that reassigned documents and still failed on an
\* empty cluster.
C4_Witness ==
    /\ pc = "failed"
    /\ error = EmptyCluster
    /\ update_count > 0
    /\ num_topics_ <= num_docs_

----------------------------------------------------------------------------
\* C5: a run with k outside [1, num_docs] fails with a configuration error
\* at initialization: it never starts an Assignment Step, never leaves the
\* loop normally and never fails later on an empty cluster.
C5_ClusterCountCheckedAtInit ==
    num_topics_ \notin 1..num_docs_ =>
        /\ pc \notin Iterating \cup AfterLoop
        /\ error # EmptyCluster

----------------------------------------------------------------------------
\* C6: for every cluster, print_topics(N) reports min(N, num_terms) distinct
\* terms, each with its weight in that cluster's centroid, in descending
\* weight order, no unreported term of the cluster weighing more than a
\* reported one.
Min(a, b) == IF a < b THEN a ELSE b

C6_TopTermsOfOwnCentroid ==
    (pc \in {"returned", "saved"} /\ num_output_terms > 0) =>
        /\ Len(printed) = num_topics_
        /\ \A t \in Topics :
              LET lines == printed[t + 1]
                  shown == {lines[j][1] : j \in 1..Len(lines)}
              IN  /\ Len(lines) = Min(num_output_terms, num_terms_)
                  /\ Cardinality(shown) = Len(lines)
                  /\ \A j \in 1..Len(lines) :
                        /\ lines[j][1] \in Terms
                        /\ lines[j][2] = centroids_[t][lines[j][1]]
                  /\ \A j, l \in 1..Len(lines) :
                        j < l => lines[j][2] >= lines[l][2]
                  /\ \A w \in Terms \ shown, j \in 1..Len(lines) :
                        centroids_[t][w] <= lines[j][2]

----------------------------------------------------------------------------
\* C7: after an Update Step that did not fail, every cluster has members and
\* its centroid is the element-wise arithmetic mean of the vectors of the
\* documents assigned to it: centroid * |members| = sum of the members.
C7_CentroidIsMeanOfMembers ==
    pc = "check" =>
        \A c \in Topics :
            /\ Members(c) # {}
            /\ \A w \in Terms :
                  centroids_[c][w] * Cardinality(Members(c))
                      = SumOver([d \in Docs |-> documents_[d][w]], Members(c))

\* An Update Step done with k >= 2 and a cluster of two different documents.
C7_Witness ==
    /\ pc = "check"
    /\ num_topics_ >= 2
    /\ \E c \in Topics : \E d, e \in Members(c) : documents_[d] # documents_[e]

----------------------------------------------------------------------------
\* C8: with a method name other than "randk" and "kmeans++", init_centroids
\* fails with the invalid-method error and touches nothing: no centroid is
\* seeded, and since a failed run takes no further step, nothing is assigned,
\* updated, printed or saved.
C8_UnknownMethodFails ==
    [][ /\ (pc = "init_centroids" /\ init_method \notin {"randk", "kmeans++"}) =>
              /\ pc' = "failed"
              /\ error' = InvalidMethod
              /\ UNCHANGED <<centroids_, topics_, printed, documents_file,
                             centroids_file, clusters_file>>
        /\ (pc' = "failed" /\ error' = InvalidMethod) =>
              /\ pc = "init_centroids"
              /\ init_method \notin {"randk", "kmeans++"}
        /\ pc = "failed" => pc' = "failed" ]_vars

\* A run that failed on the method name.
C8_Witness ==
    /\ pc = "failed"
    /\ error = InvalidMethod
    /\ init_method = "random"
    /\ printed = <<>>

----------------------------------------------------------------------------
\* C9: on the centroids of every state in which a search comes next,
\* find_nearest_cluster(v, m), 1 <= m <= k, returns the lowest index in
\* 0..m-1 whose centroid is at the minimum squared Euclidean distance from
\* v, with that distance; the centroids m..k-1 do not influence the result.
SquaredDistance(a, b) ==
    SumOver([w \in Terms |-> (a[w] - b[w]) * (a[w] - b[w])], Terms)

Features == [Terms -> Weights]

\* The states in which a search comes next: a kmeans++ slot is about to be
\* seeded, or an iteration is about to start.
Searching == {"kmeanspp", "loop"}

C9_NearestIsLowestIndexMinimum ==
    pc \in Searching =>
        \A v \in Features :
            LET dist == [c \in Topics |-> SquaredDistance(v, centroids_[c])]
            IN  \A m \in 1..num_topics_ :
                    LET r == find_nearest_cluster(v, m)
                        others_on_v ==
                            [c \in Topics |->
                                IF c < m THEN centroids_[c] ELSE v]
                    IN  /\ r[1] \in 0..(m - 1)
                        /\ r[2] = dist[r[1]]
                        /\ \A c \in 0..(m - 1) : r[2] <= dist[c]
                        /\ \A c \in 0..(r[1] - 1) : r[2] < dist[c]
                        /\ NearestAmong(others_on_v, v, m) = r

\* kmeans++ is about to search the first two of three centroids for a
\* document that is equally far from both, which differ, and strictly
\* nearer to the third.
C9_Witness ==
    /\ pc = "kmeanspp"
    /\ centroid_count = 2
    /\ \E d \in Docs :
          /\ centroids_[0] # centroids_[1]
          /\ SquaredDistance(documents_[d], centroids_[0])
                = SquaredDistance(documents_[d], centroids_[1])
          /\ SquaredDistance(documents_[d], centroids_[2])
                < SquaredDistance(documents_[d], centroids_[0])

----------------------------------------------------------------------------
\* C10: the Assignment Step changes neither centroids nor documents, the
\* Update Step changes neither the Assignment Table nor documents and runs
\* only when every document of the iteration has been assigned, and the
\* documents never change once init_documents has built them.
C10_StepsKeepTheirFrame ==
    [][ /\ pc = "assign" =>
              /\ centroids_' = centroids_
              /\ documents_' = documents_
              /\ d_id < num_docs_
        /\ pc = "update" =>
              /\ topics_' = topics_
              /\ documents_' = documents_
              /\ d_id = num_docs_
        /\ pc # "constructed" => documents_' = documents_
        /\ centroids_' # centroids_ =>
              pc \in {"init_centroids", "kmeanspp", "update"}
        /\ topics_' # topics_ => pc = "assign" ]_vars

\* A second or later iteration whose Assignment Step moved documents and
\* whose Update Step then moved a centroid.
C10_Witness ==
    /\ pc = "check"
    /\ i >= 1
    /\ update_count > 0
    /\ \E t \in Topics : \E d \in Docs : centroids_[t] = documents_[d]

----------------------------------------------------------------------------
\* C11: when kmeans++ seeds the slot c = centroid_count, the weight of every
\* document is its least squared distance to the centroids 0..c-1, and if
\* some document has a positive weight, the vector copied into slot c is
\* that of a document of positive weight, so it differs from every centroid
\* chosen before.
C11_SeedHasPositiveWeight ==
    [][ pc = "kmeanspp" =>
          /\ \A d \in Docs :
                /\ \E c \in 0..(centroid_count - 1) :
                      weights'[d] = SquaredDistance(documents_[d], centroids_[c])
                /\ \A c \in 0..(centroid_count - 1) :
                      weights'[d] <= SquaredDistance(documents_[d], centroids_[c])
          /\ (\E d \in Docs : weights'[d] > 0) =>
                /\ \E d \in Docs :
                      /\ weights'[d] > 0
                      /\ centroids_'[centroid_count] = documents_[d]
                /\ \A c \in 0..(centroid_count - 1) :
                      centroids_'[centroid_count] # centroids_[c] ]_vars

\* The third centroid has been seeded from weights of which some were zero
\* and some positive.
C11_Witness ==
    /\ init_method = "kmeans++"
    /\ pc = "loop"
    /\ centroid_count = 3
    /\ \E d \in Docs : weights[d] = 0
    /\ \E d \in Docs : weights[d] > 0

----------------------------------------------------------------------------
\* C12: a run that ended Converged is at a fixed point: every document is
\* assigned to the lowest-indexed centroid at the least squared distance
\* among the final centroids, so another Assignment Step would change no
\* assignment.
C12_ConvergedIsFixedPoint ==
    (pc \in AfterLoop /\ Converged) =>
        \A d \in Docs :
            /\ \A c \in Topics :
                  SquaredDistance(documents_[d], centroids_[topics_[d]])
                      <= SquaredDistance(documents_[d], centroids_[c])
            /\ \A c \in 0..(topics_[d] - 1) :
                  SquaredDistance(documents_[d], centroids_[topics_[d]])
                      < SquaredDistance(documents_[d], centroids_[c])
            /\ ~assign_document_changed(d)

\* A run with k >= 2 that converged in a second or later iteration, with a
\* document as near to another centroid as to its own.
C12_Witness ==
    /\ pc = "saved"
    /\ Converged
    /\ i >= 1
    /\ num_topics_ >= 2
    /\ \E d, e \in Docs : topics_[d] # topics_[e]
    /\ \E d \in Docs : \E c \in Topics \ {topics_[d]} :
          SquaredDistance(documents_[d], centroids_[topics_[d]])
              = SquaredDistance(documents_[d], centroids_[c])

----------------------------------------------------------------------------
\* C13: when two centroids a < b are the same vector during an Assignment
\* Step (the step does not change centroids, so they were at its start), no
\* document is put into cluster b, cluster b is empty when the step is over,
\* and the Update Step of that iteration fails with the empty-cluster error.
Duplicates == {p \in Topics \X Topics :
                  p[1] < p[2] /\ centroids_[p[1]] = centroids_[p[2]]}

C13_DuplicateCentroidEmptiesCluster ==
    [][ /\ pc = "assign" =>
              /\ centroids_' = centroids_
              /\ \A p \in Duplicates : topics_'[d_id] # p[2]
        /\ pc' = "update" => \A p \in Duplicates' : Members(p[2])' = {}
        /\ (pc = "update" /\ Duplicates # {}) =>
              /\ pc' = "failed"
              /\ error' = EmptyCluster ]_vars

\* An Assignment Step of a run with k <= num_docs has moved documents while
\* two centroids were the same vector.
C13_Witness ==
    /\ pc = "update"
    /\ Duplicates # {}
    /\ num_topics_ <= num_docs_
    /\ update_count > 0
    /\ \E d, e \in Docs : documents_[d] # documents_[e]
====
